---- MODULE Spec2Model ----
(***************************************************************************)
(* OverlayScrollbars: the node insertion utility (core/dom/manipulation)   *)
(* and the Environment facts probe with its change notification.           *)
(*                                                                         *)
(* The specifications of the module:                                       *)
(*   Spec         the Environment object: constructor, addListener,        *)
(*                removeListener, window resize events and the listener    *)
(*                invocations of a notification;                           *)
(*   SpecNew      the constructor alone, on every platform;                *)
(*   SpecDom      the DOM utilities before / removeElements applied to     *)
(*                every bounded tree and input;                            *)
(*   SpecDerived  appendChildren, prependChildren, insertBefore and        *)
(*                insertAfter applied to every bounded tree and input;     *)
(*   SpecSteps    before, one DOM operation at a time.                     *)
(***************************************************************************)
EXTENDS Integers, Sequences, FiniteSets

VARIABLES
    children,     \* DOM: child list of every container node
    domPc,        \* SpecDom: "ready" before the call, "done" after it
    domOp,        \* SpecDom: the call made (operation and arguments)
    domPre,       \* SpecDom: the child lists before the call
    domErr,       \* SpecDom: the call raised
    pc,           \* Environment: "new" | "idle" | "notify" | "raised" | "off"
    listeners,    \* Environment.#onChangedListener, in insertion order
    facts,        \* _nativeScrollbarSize and _nativeScrollbarIsOverlaid
    installed,    \* the resize handler was registered on window
    size,         \* closure variable `size` of the constructor
    dpr,          \* closure variable `dpr` of the constructor
    win,          \* the window: inner size and device pixel ratio
    visit,        \* forEach position: entries of listeners already visited
    platform,     \* the browser: what its optional APIs do when the probes use them
    envElm,       \* the measurement element: its class and inline style attribute
    ev            \* what the current event did (probe, invocations)

vars == <<children, domPc, domOp, domPre, domErr,
          pc, listeners, facts, installed, size, dpr, win, visit, platform, envElm, ev>>

domVars == <<children, domPc, domOp, domPre, domErr>>
envVars == <<pc, listeners, facts, installed, size, dpr, win, visit, platform, envElm, ev>>

---------------------------------------------------------------------------
(* Bounds *)

NumElms == 3          \* element leaves 1..NumElms
MaxLen == 2           \* longest node collection handed to a call
TextLen == 2          \* data length of the Text node (its `length` property)
NumCallbacks == 2     \* distinct listener callbacks

---------------------------------------------------------------------------
(* The DOM: two container elements, element leaves and one Text node *)

Null == -1
Txt == 0
Elms == 1..NumElms
P == NumElms + 1
Q == NumElms + 2
Frag == NumElms + 3
Leaves == Elms \cup {Txt}
Containers == {P, Q}

Range(s) == {s[i] : i \in DOMAIN s}
IndexOf(s, n) == CHOOSE i \in DOMAIN s : s[i] = n
Without(s, n) == SelectSeq(s, LAMBDA x : x # n)
NoDup(s) == \A i, j \in DOMAIN s : i # j => s[i] # s[j]

parentNode(ch, n) ==
    IF \E h \in DOMAIN ch : n \in Range(ch[h])
    THEN CHOOSE h \in DOMAIN ch : n \in Range(ch[h])
    ELSE Null

previousSibling(ch, n) ==
    LET p == parentNode(ch, n) IN
    IF p = Null THEN Null
    ELSE LET i == IndexOf(ch[p], n) IN IF i = 1 THEN Null ELSE ch[p][i - 1]

nextSibling(ch, n) ==
    LET p == parentNode(ch, n) IN
    IF p = Null THEN Null
    ELSE LET i == IndexOf(ch[p], n) IN
         IF i = Len(ch[p]) THEN Null ELSE ch[p][i + 1]

firstChild(ch, p) == IF ch[p] = <<>> THEN Null ELSE ch[p][1]

\* parent(elm) of core/dom/traversal: the parent of a node, null for null
parentOf(ch, elm) == IF elm = Null THEN Null ELSE parentNode(ch, elm)

\* faulty variant: the parent's first child is removed
removeChildFirst(ch, p, n) == [ch EXCEPT ![p] = Tail(@)]

\* parentNode.removeChild(node)
removeChild(ch, p, n) == [ch EXCEPT ![p] = Without(@, n)]

\* faulty variant: the node becomes the first child
appendChildFirst(ch, p, n) ==
    LET d == [h \in DOMAIN ch |-> Without(ch[h], n)]
    IN  [d EXCEPT ![p] = <<n>> \o @]

\* node.appendChild(n): n leaves its old parent and becomes the last child
appendChild(ch, p, n) ==
    LET d == [h \in DOMAIN ch |-> Without(ch[h], n)]
    IN  [d EXCEPT ![p] = Append(@, n)]

\* parent.insertBefore(node, child) for a single node: NotFoundError when child
\* is not a child of parent; a node inserted before itself stays where it is
insertNode(ch, p, node, child) ==
    IF child # Null /\ parentNode(ch, child) # p
    THEN [ch |-> ch, err |-> TRUE]
    ELSE LET ref == IF child = node THEN nextSibling(ch, node) ELSE child
             d == [h \in DOMAIN ch |-> Without(ch[h], node)]
             i == IF ref = Null THEN Len(d[p]) + 1 ELSE IndexOf(d[p], ref)
         IN  [ch |-> [d EXCEPT ![p] = SubSeq(@, 1, i - 1) \o <<node>> \o SubSeq(@, i, Len(@))],
              err |-> FALSE]

\* faulty variant: the fragment is appended, the anchor ignored
insertFragmentAtEnd(ch, p, child) ==
    [ch |-> [ch EXCEPT ![p] = @ \o ch[Frag], ![Frag] = <<>>], err |-> FALSE]

\* parent.insertBefore(fragment, child): the fragment's children move, in order,
\* before child and the fragment is left empty
insertFragment(ch, p, child) ==
    IF child # Null /\ parentNode(ch, child) # p
    THEN [ch |-> ch, err |-> TRUE]
    ELSE LET i == IF child = Null THEN Len(ch[p]) + 1 ELSE IndexOf(ch[p], child)
         IN  [ch |-> [ch EXCEPT ![p] = SubSeq(@, 1, i - 1) \o ch[Frag] \o SubSeq(@, i, Len(@)),
                                ![Frag] = <<>>],
              err |-> FALSE]

---------------------------------------------------------------------------
(* NodeCollection = ArrayLike<Node> | Node | undefined | null *)

NullC == [k |-> "null", n |-> Null, items |-> <<>>]
UndefC == [k |-> "undefined", n |-> Null, items |-> <<>>]
NodeC(n) == [k |-> "node", n |-> n, items |-> <<>>]
ListC(s) == [k |-> "list", n |-> Null, items |-> s]

\* a Text node carries a numeric `length` (CharacterData.length)
hasLength(n) == n = Txt

isArrayLike(obj) ==
    \/ obj.k = "list"
    \/ obj.k = "node" /\ hasLength(obj.n)

\* obj[0..length-1]: the entries of an array, undefined for a Text node
arrayFrom(obj) ==
    IF obj.k = "list" THEN obj.items ELSE [i \in 1..TextLen |-> UndefC]

WithFrag(ch) == [h \in Containers \cup {Frag} |-> IF h = Frag THEN <<>> ELSE ch[h]]
NoFrag(ch) == [h \in Containers |-> ch[h]]

\* the callback handed to each by before, on st = [ch, anchor, err]: an
\* entry that is no node makes fragment.appendChild raise
eachCallback(st, insertedElm) ==
    IF insertedElm.k # "node"
    THEN [st EXCEPT !.err = TRUE]
    ELSE [ch |-> appendChild(st.ch, Frag, insertedElm.n),
          anchor |-> IF insertedElm.n = st.anchor
                     THEN previousSibling(st.ch, insertedElm.n)
                     ELSE st.anchor,
          err |-> FALSE]

\* the each(...) loop of before
RECURSIVE eachInserted(_, _, _)
eachInserted(st, items, i) ==
    IF i > Len(items) \/ st.err THEN st
    ELSE eachInserted(eachCallback(st, items[i]), items, i + 1)

\* faulty variant: a moved anchor is not advanced to its next sibling
validAnchorNoAdvance(ch, parent, preferredAnchor, anchor) ==
    IF preferredAnchor # Null /\ anchor = Null THEN firstChild(ch, parent) ELSE anchor

validAnchor(ch, parent, preferredAnchor, anchor) ==
    IF preferredAnchor # Null
    THEN IF anchor = Null THEN firstChild(ch, parent)
         ELSE IF anchor # preferredAnchor THEN nextSibling(ch, anchor)
         ELSE anchor
    ELSE anchor

\* the body of before once insertedElms and parent are known to be defined
beforeDefined(ch, parent, preferredAnchor, insertedElms) ==
    IF isArrayLike(insertedElms)
    THEN LET st == eachInserted([ch |-> WithFrag(ch), anchor |-> preferredAnchor, err |-> FALSE],
                                arrayFrom(insertedElms), 1)
             r == insertFragment(st.ch, parent,
                                 validAnchor(st.ch, parent, preferredAnchor, st.anchor))
         IN  IF st.err THEN [ch |-> NoFrag(st.ch), err |-> TRUE]
             ELSE [ch |-> NoFrag(r.ch), err |-> r.err]
    ELSE insertNode(ch, parent, insertedElms.n,
                    validAnchor(ch, parent, preferredAnchor, preferredAnchor))

\* faulty variant: the `if (parent)` check is missing, so with a null parent an
\* array is gathered in the fragment before parent.firstChild / parent.insertBefore
\* raises on null
beforeUnchecked(ch, parent, preferredAnchor, insertedElms) ==
    IF insertedElms.k \in {"null", "undefined"}
    THEN [ch |-> ch, err |-> FALSE]
    ELSE IF parent = Null
    THEN LET st == eachInserted([ch |-> WithFrag(ch), anchor |-> preferredAnchor, err |-> FALSE],
                                arrayFrom(insertedElms), 1)
         IN  [ch |-> IF isArrayLike(insertedElms) THEN NoFrag(st.ch) ELSE ch, err |-> TRUE]
    ELSE beforeDefined(ch, parent, preferredAnchor, insertedElms)

before(ch, parent, preferredAnchor, insertedElms) ==
    IF insertedElms.k \in {"null", "undefined"} \/ parent = Null
    THEN [ch |-> ch, err |-> FALSE]
    ELSE beforeDefined(ch, parent, preferredAnchor, insertedElms)

appendChildren(ch, node, kids) == before(ch, node, Null, kids)

prependChildren(ch, node, kids) ==
    before(ch, node, IF node = Null THEN Null ELSE firstChild(ch, node), kids)

insertBefore(ch, node, insertedNodes) ==
    before(ch, parentOf(ch, node), node, insertedNodes)

insertAfter(ch, node, insertedNodes) ==
    before(ch, parentOf(ch, node),
           IF node = Null THEN Null ELSE nextSibling(ch, node), insertedNodes)

RECURSIVE removeElements(_, _)
RECURSIVE removeEach(_, _, _)
removeEach(ch, items, i) ==
    IF i > Len(items) THEN ch
    ELSE removeEach(removeElements(ch, items[i]), items, i + 1)

removeElements(ch, nodes) ==
    IF isArrayLike(nodes) THEN removeEach(ch, arrayFrom(nodes), 1)
    ELSE IF nodes.k = "node"
    THEN LET pn == parentNode(ch, nodes.n) IN
         IF pn # Null THEN removeChild(ch, pn, nodes.n) ELSE ch
    ELSE ch

NoOp == [op |-> "none", node |-> Null, parent |-> Null, anchor |-> Null, elms |-> NullC]

---------------------------------------------------------------------------
(* The Environment: platform inputs *)

Callbacks == 1..NumCallbacks

\* the Environment instance handed to the listeners (_self)
Self == "Environment"

Body == P
EnvElm == NumElms

\* window sizes (innerWidth, innerHeight) a resize event may carry
WinSizes ==
    { [w |-> 100, h |-> 100], [w |-> 150, h |-> 150], [w |-> 150, h |-> 153],
      [w |-> 102, h |-> 103], [w |-> 0, h |-> 0] }

\* device pixel ratios: 0 where the platform reports none
DPRs == {0, 1, 2}

Windows == {[w |-> s.w, h |-> s.h, dpr |-> d] : s \in WinSizes, d \in DPRs}

\* box sizes the platform lays the measurement element out with: the offset box
\* and the client box, which is smaller by the scrollbars the platform reserves
Layouts ==
    { [o |-> [w |-> 100, h |-> 100], c |-> [w |-> 100 - v, h |-> 100 - hz]] :
        <<hz, v>> \in {<<0, 0>>, <<0, 17>>, <<17, 17>>} }

\* computed scrollbar-width of an element carrying the scrollbar-hiding class
ScrollbarWidths == {"none", "auto"}

\* computed display of its ::-webkit-scrollbar pseudo-element; "throws" where
\* asking for the pseudo-element's style raises
PseudoDisplays == {"none", "block", "throws"}

\* window.addEventListener: "modern" reads the options object, "legacy" takes
\* the third argument for a boolean and reads nothing, "absent" raises before
\* anything is read
ListenerApis == {"modern", "legacy", "absent"}

\* absolute x of the RTL parent, of its child, and of the child after
\* scrollLeft(parentElm, -999)
RtlCoordinates ==
    { [parentX |-> 0, childX |-> c, childXAfter |-> c + d] : c \in {0, 5}, d \in {0, 20} }

Platforms ==
    [ scrollbarWidth : ScrollbarWidths, pseudoDisplay : PseudoDisplays,
      listenerApi : ListenerApis, resizeObserver : BOOLEAN, rtl : RtlCoordinates ]

\* a browser with every optional API
FullPlatform ==
    [ scrollbarWidth |-> "auto", pseudoDisplay |-> "none", listenerApi |-> "modern",
      resizeObserver |-> TRUE, rtl |-> [parentX |-> 0, childX |-> 0, childXAfter |-> 20] ]

\* the measurement element as createDOM returns it: no class, no style attribute
FreshElm == [cls |-> FALSE, style |-> FALSE]

\* what the current event did: the call, whether addListener found the callback
\* registered or removeListener found it missing, whether it measured, whether
\* the measurement element was attached to body while it did and what class and
\* style it carried then and what it measured, whether a listener changed the
\* listener set during the notification, the callbacks removeListener was
\* called with and addListener was not called with since, the listener calls
\* made so far and the facts each called listener found in the Environment
Quiet(op) ==
    [op |-> op, noop |-> FALSE, probed |-> FALSE, attached |-> FALSE,
     measured |-> FreshElm, newScrollbarSize |-> [x |-> 0, y |-> 0],
     mutated |-> FALSE, gone |-> {}, invoked |-> <<>>, seen |-> <<>>]

---------------------------------------------------------------------------
(* The Environment: part_000 *)

Infinity == -1
NaN == -2

abs(v) == IF v \in {Infinity, NaN} THEN v ELSE IF v < 0 THEN -v ELSE v

\* Math.round(num / den) for num, den >= 0: halves round up; x/0 is Infinity, 0/0 NaN
roundDiv(num, den) ==
    IF den = 0 THEN (IF num = 0 THEN NaN ELSE Infinity)
    ELSE (2 * num + den) \div (2 * den)

\* === on numbers: NaN equals nothing
strictEq(a, b) == a # NaN /\ b # NaN /\ a = b

\* a + k on numbers: Infinity and NaN absorb
plus(a, k) == IF a \in {Infinity, NaN} THEN a ELSE a + k

windowSize(window) == [w |-> window.w, h |-> window.h]

windowDPR(window) == window.dpr

diffBiggerThanOne(valOne, valTwo) ==
    LET absValOne == abs(valOne)
        absValTwo == abs(valTwo)
    IN  ~(\/ strictEq(absValOne, absValTwo)
          \/ strictEq(plus(absValOne, 1), absValTwo)
          \/ strictEq(plus(absValOne, -1), absValTwo))

\* nativeScrollbarSize(body, measureElm): attach, read both boxes, subtract
nativeScrollbarSize(ch, body, measureElm, layout) ==
    LET r == appendChildren(ch, body, NodeC(measureElm))
        cSize == layout.c
        oSize == layout.o
    IN  [ch |-> r.ch,
         attached |-> measureElm \in Range(r.ch[body]),
         size |-> [x |-> oSize.h - cSize.h, y |-> oSize.w - cSize.w]]

\* addClass(elm, 'os-viewport-native-scrollbars-invisible')
addClass(elm) == [elm EXCEPT !.cls = TRUE]

\* style(elm, { overflowX, overflowY, direction }): writes inline styles
setStyle(elm) == [elm EXCEPT !.style = TRUE]

\* removeAttr(elm, 'style')
removeAttr(elm) == [elm EXCEPT !.style = FALSE]

\* jsAPI(name): the global constructor of that name, if the platform has one
jsAPI(pf, name) == name = "ResizeObserver" /\ pf.resizeObserver

\* faulty variant: no try/catch around the computed-style reads
nativeScrollbarStylingUncaught(pf, testElm) ==
    [elm |-> addClass(testElm),
     result |-> pf.scrollbarWidth = "none" \/ pf.pseudoDisplay = "none",
     raised |-> pf.scrollbarWidth # "none" /\ pf.pseudoDisplay = "throws"]

\* nativeScrollbarStyling(testElm): the class is added, then `result` is set
\* inside try; a raise leaves it false and is swallowed
nativeScrollbarStyling(pf, testElm) ==
    [elm |-> addClass(testElm),
     result |-> IF pf.scrollbarWidth = "none" THEN TRUE
                ELSE IF pf.pseudoDisplay = "throws" THEN FALSE
                ELSE pf.pseudoDisplay = "none",
     raised |-> FALSE]

rtlScrollBehavior(pf, parentElm) ==
    LET parentOffset == pf.rtl.parentX
        childOffset == pf.rtl.childX
        childOffsetAfterScroll == pf.rtl.childXAfter
    IN  [elm |-> setStyle(parentElm),
         i |-> parentOffset = childOffset,
         n |-> childOffset # childOffsetAfterScroll]

\* faulty variant: no try/catch around the test registration
passiveEventsUncaught(pf) ==
    [result |-> pf.listenerApi = "modern", raised |-> pf.listenerApi = "absent"]

\* passiveEvents(): supportsPassive flips when the platform reads the option;
\* a raise is swallowed
passiveEvents(pf) ==
    [result |-> pf.listenerApi = "modern", raised |-> FALSE]

\* the fields of a new instance before the constructor assigns them
NoFacts ==
    [size |-> [x |-> 0, y |-> 0], overlaid |-> [x |-> FALSE, y |-> FALSE],
     styling |-> FALSE, rtl |-> [i |-> FALSE, n |-> FALSE],
     passive |-> FALSE, resizeObserver |-> FALSE]

\* faulty variant: the measurement is not assigned before the listeners run
reprobedLate(old, newScrollbarSize) == old

\* faulty variant: the handler builds the facts anew from the measurement
reprobedAfresh(old, newScrollbarSize) ==
    [NoFacts EXCEPT !.size = newScrollbarSize,
                    !.overlaid = [x |-> newScrollbarSize.x = 0, y |-> newScrollbarSize.y = 0]]

\* _self._nativeScrollbarSize = nativeScrollbarSize(body, envElm)
reprobed(old, newScrollbarSize) == [old EXCEPT !.size = newScrollbarSize]

deltaAbsRatio(sizeNew, sizeOld) ==
    [w |-> abs(roundDiv(100 * sizeNew.w, sizeOld.w)),
     h |-> abs(roundDiv(100 * sizeNew.h, sizeOld.h))]

\* faulty variant: one axis above 2px is taken to be enough
deltaIsBiggerEither(deltaAbsSize) == deltaAbsSize.w > 2 \/ deltaAbsSize.h > 2

deltaIsBigger(deltaAbsSize) == deltaAbsSize.w > 2 /\ deltaAbsSize.h > 2

dprChanged(dprNew, dprOld) == dprNew # dprOld /\ dprOld > 0

isZoom(sizeNew, sizeOld, dprNew, dprOld) ==
    LET deltaSize == [w |-> sizeNew.w - sizeOld.w, h |-> sizeNew.h - sizeOld.h]
        deltaAbsSize == [w |-> abs(deltaSize.w), h |-> abs(deltaSize.h)]
        ratio == deltaAbsRatio(sizeNew, sizeOld)
        difference == ~diffBiggerThanOne(ratio.w, ratio.h)
    IN  deltaIsBigger(deltaAbsSize) /\ difference /\ dprChanged(dprNew, dprOld)

\* faulty variant: the device pixel ratio of the event is not kept
storedSizeOnly(sizeNew, dprNew, sizeOld, dprOld) == [size |-> sizeNew, dpr |-> dprOld]

\* size = sizeNew; dpr = dprNew: the closure variables when the handler returns
stored(sizeNew, dprNew, sizeOld, dprOld) == [size |-> sizeNew, dpr |-> dprNew]

\* faulty variant: the handler is registered unconditionally
installsHandlerAlways(overlaid) == TRUE

\* the handler is registered unless both axes are overlaid
installsHandler(overlaid) == ~overlaid.x \/ ~overlaid.y

\* faulty variant: a change is reported only when both axes differ
sizeChangedBoth(old, new) == old.x # new.x /\ old.y # new.y

\* oldScrollbarSize differs from newScrollbarSize on x or on y
sizeChanged(old, new) == old.x # new.x \/ old.y # new.y

\* faulty variant: the listener-count short-circuit is missing
hasListenersAlways(set) == TRUE

\* onChangedListener.size is truthy
hasListeners(set) == Len(set) > 0

\* faulty variant: an array push instead of Set.add
setAddPush(set, c) == Append(set, c)

\* faulty variant: splice(indexOf(c), 1) on an array, which drops the last entry when
\* c is not found
setDeleteSplice(set, c) ==
    IF c \in Range(set) THEN Without(set, c)
    ELSE SubSeq(set, 1, Len(set) - 1)

\* faulty variant: nothing is deleted
setDeleteNothing(set, c) == set

\* Set.add / Set.delete on the insertion-ordered listener set
setAdd(set, c) == IF c \in Range(set) THEN set ELSE Append(set, c)

setDelete(set, c) == Without(set, c)

DomIdle ==
    /\ domPc = "off"
    /\ domOp = NoOp
    /\ domPre = [h \in Containers |-> <<>>]
    /\ domErr = FALSE

\* a page about to construct its Environment on one of the given platforms
InitOn(platforms) ==
    /\ children = [h \in Containers |-> IF h = Body THEN [i \in 1..(NumElms - 1) |-> i] ELSE <<>>]
    /\ DomIdle
    /\ pc = "new"
    /\ listeners = <<>>
    /\ facts = NoFacts
    /\ installed = FALSE
    /\ size = [w |-> 0, h |-> 0]
    /\ dpr = 0
    /\ win \in Windows
    /\ visit = 0
    /\ platform \in platforms
    /\ envElm = FreshElm
    /\ ev = Quiet("none")

Init == InitOn({FullPlatform})

\* new Environment(): a probe that raises ends the constructor where it is
Constructor ==
    /\ pc = "new"
    /\ \E layout \in Layouts :
         LET m == nativeScrollbarSize(children, Body, EnvElm, layout)
             nativeScrollbarIsOverlaid == [x |-> m.size.x = 0, y |-> m.size.y = 0]
             styling == nativeScrollbarStyling(platform, envElm)
             rtl == rtlScrollBehavior(platform, styling.elm)
             passive == passiveEvents(platform)
             measuredFacts == [NoFacts EXCEPT !.size = m.size,
                                              !.overlaid = nativeScrollbarIsOverlaid]
             probe == [Quiet("new") EXCEPT !.probed = TRUE, !.attached = m.attached,
                                            !.measured = envElm,
                                            !.newScrollbarSize = m.size]
         IN  IF styling.raised
             THEN /\ facts' = measuredFacts
                  /\ children' = m.ch
                  /\ envElm' = styling.elm
                  /\ pc' = "raised"
                  /\ ev' = probe
                  /\ UNCHANGED <<installed, size, dpr>>
             ELSE IF passive.raised
             THEN /\ facts' = [measuredFacts EXCEPT !.styling = styling.result,
                                                     !.rtl = [i |-> rtl.i, n |-> rtl.n]]
                  /\ children' = m.ch
                  /\ envElm' = rtl.elm
                  /\ pc' = "raised"
                  /\ ev' = probe
                  /\ UNCHANGED <<installed, size, dpr>>
             ELSE /\ facts' = [measuredFacts EXCEPT
                                  !.styling = styling.result,
                                  !.rtl = [i |-> rtl.i, n |-> rtl.n],
                                  !.passive = passive.result,
                                  !.resizeObserver = jsAPI(platform, "ResizeObserver")]
                  /\ envElm' = removeAttr(rtl.elm)
                  /\ children' = removeElements(m.ch, NodeC(EnvElm))
                  /\ installed' = installsHandler(nativeScrollbarIsOverlaid)
                  /\ IF installsHandler(nativeScrollbarIsOverlaid)
                     THEN size' = windowSize(win) /\ dpr' = windowDPR(win)
                     ELSE UNCHANGED <<size, dpr>>
                  /\ pc' = "idle"
                  /\ ev' = probe
    /\ UNCHANGED <<listeners, win, visit, platform, domPc, domOp, domPre, domErr>>

AddListener ==
    /\ pc = "idle"
    /\ \E listener \in Callbacks :
         /\ listeners' = setAdd(listeners, listener)
         /\ ev' = [Quiet("add") EXCEPT !.noop = listener \in Range(listeners)]
    /\ UNCHANGED <<domVars, pc, facts, installed, size, dpr, win, visit, platform, envElm>>

RemoveListener ==
    /\ pc = "idle"
    /\ \E listener \in Callbacks :
         /\ listeners' = setDelete(listeners, listener)
         /\ ev' = [Quiet("remove") EXCEPT !.noop = listener \notin Range(listeners),
                                          !.gone = {listener}]
    /\ UNCHANGED <<domVars, pc, facts, installed, size, dpr, win, visit, platform, envElm>>

\* the window is resized and dispatches `resize`
Resize ==
    /\ pc = "idle"
    /\ \E window \in Windows :
         LET sizeNew == windowSize(window)
             dprNew == windowDPR(window)
         IN
         /\ win' = window
         /\ IF ~installed \/ ~hasListeners(listeners)
               \/ (sizeNew.w - size.w = 0 /\ sizeNew.h - size.h = 0)
            THEN /\ ev' = Quiet("resize")
                 /\ UNCHANGED <<children, facts, size, dpr, pc>>
            ELSE IF ~isZoom(sizeNew, size, dprNew, dpr)
            THEN /\ ev' = Quiet("resize")
                 /\ size' = stored(sizeNew, dprNew, size, dpr).size
                 /\ dpr' = stored(sizeNew, dprNew, size, dpr).dpr
                 /\ UNCHANGED <<children, facts, pc>>
            ELSE \E layout \in Layouts :
                 LET m == nativeScrollbarSize(children, Body, EnvElm, layout)
                 IN  /\ facts' = reprobed(facts, m.size)
                     /\ children' = removeElements(m.ch, NodeC(EnvElm))
                     /\ ev' = [Quiet("resize") EXCEPT !.probed = TRUE, !.attached = m.attached,
                                                      !.measured = envElm,
                                                      !.newScrollbarSize = m.size]
                     /\ IF sizeChanged(facts.size, m.size)
                        THEN pc' = "notify" /\ UNCHANGED <<size, dpr>>
                        ELSE /\ pc' = "idle"
                             /\ size' = stored(sizeNew, dprNew, size, dpr).size
                             /\ dpr' = stored(sizeNew, dprNew, size, dpr).dpr
    /\ visit' = 0
    /\ UNCHANGED <<domPc, domOp, domPre, domErr, listeners, installed, platform, envElm>>

\* what a listener does with the Environment when called: nothing, or one
\* addListener / removeListener call
ListenerBodies ==
    {[call |-> "none", cb |-> 0]}
    \cup {[call |-> c, cb |-> l] : c \in {"add", "remove"}, l \in Callbacks}

\* one step of onChangedListener.forEach: the next entry in insertion order is
\* called; after the last one the handler stores the new baseline and returns
InvokeListener ==
    /\ pc = "notify"
    /\ visit < Len(listeners)
    /\ \E body \in ListenerBodies :
         LET listener == listeners[visit + 1]
             after == IF body.call = "add" THEN setAdd(listeners, body.cb)
                      ELSE IF body.call = "remove" THEN setDelete(listeners, body.cb)
                      ELSE listeners
             visited == IF body.call = "remove" /\ body.cb \in Range(SubSeq(listeners, 1, visit + 1))
                        THEN visit ELSE visit + 1
         IN  /\ listeners' = after
             /\ ev' = [ev EXCEPT !.invoked = Append(@, [cb |-> listener, arg |-> Self]),
                                 !.seen = Append(@, facts),
                                 !.gone = IF body.call = "remove" THEN @ \cup {body.cb}
                                          ELSE IF body.call = "add" THEN @ \ {body.cb}
                                          ELSE @,
                                 !.mutated = @ \/ after # listeners]
             /\ IF visited < Len(after)
                THEN pc' = "notify" /\ visit' = visited /\ UNCHANGED <<size, dpr>>
                ELSE /\ pc' = "idle"
                     /\ visit' = 0
                     /\ size' = stored(windowSize(win), windowDPR(win), size, dpr).size
                     /\ dpr' = stored(windowSize(win), windowDPR(win), size, dpr).dpr
    /\ UNCHANGED <<domVars, facts, installed, win, platform, envElm>>

Next == Constructor \/ AddListener \/ RemoveListener \/ Resize \/ InvokeListener

Spec == Init /\ [][Next]_vars

---------------------------------------------------------------------------
(* Claims about the Environment, checked under Spec *)

\* a step of Resize: the event dispatched to an idle page
ResizeStep == pc = "idle" /\ ev'.op = "resize"

Dist(a, b) == IF a < b THEN b - a ELSE a - b

\* the two rounded percentage ratios are equal or differ by exactly 1
RatiosWithinOne(sizeNew, sizeOld) ==
    LET r == deltaAbsRatio(sizeNew, sizeOld) IN
    \/ r.w = r.h
    \/ r.w >= 0 /\ r.h >= 0 /\ Dist(r.w, r.h) = 1

ZoomExpected(window) ==
    /\ Len(listeners) >= 1
    /\ Dist(window.w, size.w) > 2
    /\ Dist(window.h, size.h) > 2
    /\ RatiosWithinOne(windowSize(window), size)
    /\ window.dpr # dpr
    /\ dpr > 0

\* C1: with the resize handler installed, a resize event re-runs the
\* scrollbar-size measurement if and only if a listener is registered, width
\* and height both changed by more than 2px against the baseline, the rounded
\* percentage ratios are equal or differ by exactly 1, and the device pixel
\* ratio differs from a baseline ratio > 0; a resize that changes only one
\* axis by more than 2px never re-probes.
C1_ReprobeIffZoom ==
    [][ (ResizeStep /\ installed) =>
          /\ ev'.probed <=> ZoomExpected(win')
          /\ ev'.attached <=> ev'.probed
          /\ (Dist(win'.w, size.w) <= 2 \/ Dist(win'.h, size.h) <= 2) => ~ev'.probed ]_vars

\* a resize from 150x150 to 102x103 (ratios 68 and 69) with a changed device
\* pixel ratio has re-probed; the baseline is still the old one while the
\* listeners are being called
C1_Witness ==
    /\ ev.op = "resize"
    /\ ev.probed
    /\ ev.attached
    /\ installed
    /\ pc = "notify"
    /\ size = [w |-> 150, h |-> 150]
    /\ dpr = 1
    /\ win = [w |-> 102, h |-> 103, dpr |-> 2]

InvokedCallbacks == {ev.invoked[i].cb : i \in DOMAIN ev.invoked}

\* C2: listeners are invoked only inside a resize event classified as a zoom
\* whose fresh measurement differs from the recorded nativeScrollbarSize on x
\* or y, and then every registered listener is invoked with the Environment
\* itself; a zoom whose measurement equals the recorded size invokes none, and
\* construction, addListener and removeListener invoke none.
C2_NotifyOnlyOnChangedZoom ==
    [][ /\ ResizeStep =>
             /\ ev'.invoked = <<>>
             /\ pc' = "notify" <=> (ev'.probed /\ facts'.size # facts.size)
             /\ pc' = "notify" => visit' < Len(listeners')
        /\ ev'.invoked # ev.invoked /\ ev'.invoked # <<>> =>
             /\ pc = "notify"
             /\ ev.op = "resize" /\ ev.probed
             /\ ev'.invoked = Append(ev.invoked, [cb |-> listeners[visit + 1], arg |-> Self])
             /\ pc' = "notify" => visit' < Len(listeners')
        /\ pc = "notify" /\ pc' = "idle" =>
             Range(listeners') \subseteq {ev'.invoked[i].cb : i \in DOMAIN ev'.invoked}
        /\ ev'.op \in {"new", "add", "remove"} => ev'.invoked = <<>> /\ pc' = "idle" ]_vars

\* a notification that has returned after calling both registered listeners
C2_Witness ==
    /\ pc = "idle"
    /\ ev.op = "resize"
    /\ ev.probed
    /\ Len(listeners) = 2
    /\ InvokedCallbacks = Range(listeners)

\* C3: in every state after construction, on each axis
\* nativeScrollbarIsOverlaid is true exactly when nativeScrollbarSize is 0.
C3_OverlaidIffZeroSize ==
    pc # "new" =>
        /\ facts.overlaid.x <=> facts.size.x = 0
        /\ facts.overlaid.y <=> facts.size.y = 0

\* C4: while the listener set is empty, a resize event leaves
\* nativeScrollbarSize unchanged, measures nothing (the measurement element is
\* not attached to body) and invokes no callback.
C4_NoListenersNoProbe ==
    [][ (ResizeStep /\ listeners = <<>>) =>
          /\ facts' = facts
          /\ children' = children
          /\ ~ev'.probed
          /\ ~ev'.attached
          /\ ev'.invoked = <<>>
          /\ pc' = "idle" ]_vars

\* a resize event that the handler would classify as a zoom reached the
\* installed handler while no listener was registered
C4_Witness ==
    /\ ev.op = "resize"
    /\ listeners = <<>>
    /\ installed
    /\ isZoom(windowSize(win), size, windowDPR(win), dpr)

\* C5: when construction measured 0 on both axes, no resize handler is
\* installed and nativeScrollbarSize and nativeScrollbarIsOverlaid keep their
\* construction values: no re-probe, no listener call.
C5_BothOverlaidFrozen ==
    [][ (pc' # "new" /\ facts'.overlaid.x /\ facts'.overlaid.y) =>
          /\ ~installed'
          /\ facts'.size = [x |-> 0, y |-> 0]
          /\ pc # "new" => (facts' = facts /\ ~ev'.probed)
          /\ ev'.invoked = <<>>
          /\ pc' = "idle" ]_vars

\* with both axes overlaid and a listener registered, a resize event arrived
\* that changes both axes in proportion and the device pixel ratio
C5_Witness ==
    /\ facts.overlaid.x /\ facts.overlaid.y
    /\ ev.op = "resize"
    /\ Len(listeners) = 2
    /\ win = [w |-> 150, h |-> 150, dpr |-> 2]

\* C6: a callback registered by several addListener calls is registered once:
\* a notification during which no listener changes the set invokes every
\* registered callback exactly once, and one removeListener call leaves the
\* callback unregistered.
C6_IdempotentRegistration ==
    [][ /\ NoDup(listeners')
        /\ (pc = "idle" /\ ev'.op = "add" /\ ev'.noop) => listeners' = listeners
        /\ (pc = "idle" /\ ev'.op = "add") =>
             \E c \in Callbacks : c \in Range(listeners') /\ Range(listeners') = Range(listeners) \cup {c}
        /\ (pc = "idle" /\ ev'.op = "remove") =>
             \E c \in Callbacks : c \notin Range(listeners') /\ Range(listeners') = Range(listeners) \ {c}
        /\ (pc = "notify" /\ pc' = "idle" /\ ~ev'.mutated) =>
             [i \in DOMAIN ev'.invoked |-> ev'.invoked[i].cb] = listeners' ]_vars

\* addListener was called with a callback that was already registered
C6_Witness ==
    /\ ev.op = "add"
    /\ ev.noop
    /\ Len(listeners) = 2

\* C7: removeListener with a callback that is not registered returns normally
\* and leaves the listener set and the facts exactly as they were.
C7_RemoveUnregisteredNoop ==
    [][ (pc = "idle" /\ ev'.op = "remove" /\ ev'.noop) =>
          /\ listeners' = listeners
          /\ facts' = facts
          /\ <<installed', size', dpr', win', children'>> = <<installed, size, dpr, win, children>>
          /\ ev'.invoked = <<>>
          /\ pc' = "idle" ]_vars

\* removeListener was called with an unregistered callback while another
\* callback was registered
C7_Witness ==
    /\ ev.op = "remove"
    /\ ev.noop
    /\ Len(listeners) = 1

\* C13: after construction no resize event, addListener or removeListener
\* call changes nativeScrollbarStyling, rtlScrollBehavior,
\* supportPassiveEvents or supportResizeObserver; a zoom-triggered re-probe
\* writes the scrollbar-size facts only.
C13_OtherFactsImmutable ==
    [][ pc # "new" =>
          /\ facts'.styling = facts.styling
          /\ facts'.rtl = facts.rtl
          /\ facts'.passive = facts.passive
          /\ facts'.resizeObserver = facts.resizeObserver
          /\ (ResizeStep /\ ev'.probed) =>
                facts' = [facts EXCEPT !.size = facts'.size, !.overlaid = facts'.overlaid] ]_vars

\* a zoom re-probe has replaced the measured size 17/17 by 0/17 on a platform
\* whose other facts are all true
C13_Witness ==
    /\ ev.op = "resize"
    /\ ev.probed
    /\ facts.size = [x |-> 0, y |-> 17]
    /\ ~facts.overlaid.x
    /\ facts.styling /\ facts.passive /\ facts.resizeObserver
    /\ facts.rtl = [i |-> TRUE, n |-> TRUE]

\* C15: at the start of every resize event the recorded baseline is the
\* window size and device pixel ratio of the resize event directly before it
\* (of construction for the first one), because every resize event, zoom or
\* not, stores its own values as the new baseline.
C15_BaselineIsPrecedingEvent ==
    [][ (ResizeStep /\ installed) =>
          (size = windowSize(win) /\ dpr = windowDPR(win)) ]_vars

\* the handler runs to its end: a listener is registered and the window size
\* differs from the baseline
HandledResize(window) ==
    /\ installed
    /\ listeners # <<>>
    /\ windowSize(window) # size

\* C15 as the handler has it: a resize event with a listener registered and a
\* window size different from the baseline stores its own window size and
\* device pixel ratio, zoom or not, when the handler returns (after the
\* listeners of a notification have been called); a resize event with no
\* listener registered or with the baseline's window size stores nothing, and
\* nothing else changes the baseline.
C15_BaselineStoredWhenHandled ==
    [][ /\ (ResizeStep /\ HandledResize(win') /\ pc' = "idle") =>
             (size' = windowSize(win') /\ dpr' = windowDPR(win'))
        /\ (ResizeStep /\ HandledResize(win') /\ pc' = "notify") =>
             (size' = size /\ dpr' = dpr)
        /\ (pc = "notify" /\ pc' = "idle") =>
             (size' = windowSize(win) /\ dpr' = windowDPR(win))
        /\ (pc = "notify" /\ pc' = "notify") => (size' = size /\ dpr' = dpr)
        /\ (ResizeStep /\ ~HandledResize(win')) => (size' = size /\ dpr' = dpr)
        /\ (pc = "idle" /\ ev'.op \in {"add", "remove"}) => (size' = size /\ dpr' = dpr) ]_vars

\* a resize to 150x153 at ratio 2 that did not re-probe has become the
\* baseline
C15_Witness ==
    /\ ev.op = "resize"
    /\ ~ev.probed
    /\ pc = "idle"
    /\ listeners # <<>>
    /\ win = [w |-> 150, h |-> 153, dpr |-> 2]
    /\ size = [w |-> 150, h |-> 153]
    /\ dpr = 2

\* C16: the listeners of a notification are called inside the resize event
\* that caused it, after the facts were written: at every listener call
\* nativeScrollbarSize is the newly measured size, which differs from the
\* size before the zoom, and all listeners of the notification find the same
\* facts.
C16_ListenersSeeUpdatedFacts ==
    [][ /\ (ResizeStep /\ pc' = "notify") =>
             /\ ev'.probed
             /\ facts'.size = ev'.newScrollbarSize
             /\ facts'.size # facts.size
        /\ pc = "notify" =>
             /\ ev'.op = "resize"
             /\ win' = win
             /\ ev'.newScrollbarSize = ev.newScrollbarSize
             /\ Len(ev'.invoked) = Len(ev.invoked) + 1
             /\ Len(ev'.seen) = Len(ev'.invoked)
             /\ facts' = facts
             /\ \A i \in DOMAIN ev'.seen :
                   /\ ev'.seen[i].size = ev.newScrollbarSize
                   /\ ev'.seen[i] = ev'.seen[1] ]_vars

\* two listeners were called in one notification and both found the size
\* 0/17 measured by the re-probe
C16_Witness ==
    /\ ev.op = "resize"
    /\ ev.probed
    /\ Len(ev.seen) = 2
    /\ ev.invoked[1].cb # ev.invoked[2].cb
    /\ ev.newScrollbarSize = [x |-> 0, y |-> 17]
    /\ ev.seen[1].size = [x |-> 0, y |-> 17]
    /\ ev.seen[2].size = [x |-> 0, y |-> 17]

\* body's children before the Environment was constructed
BodyChildren == [i \in 1..(NumElms - 1) |-> i]

\* C17: the measurement element is a child of body only while a probe runs:
\* once the constructor has returned, once a resize handler has returned and
\* whenever a listener is called, it is not a child of body and body's other
\* children are the same, in the same order, as before the probe.
C17_MeasureElmDetached ==
    /\ pc \in {"idle", "notify"} =>
          /\ EnvElm \notin Range(children[Body])
          /\ parentNode(children, EnvElm) = Null
          /\ children[Body] = BodyChildren
    /\ ev.attached <=> ev.probed

\* the first listener of a notification is about to be called: the re-probe
\* had the element attached and body is as before
C17_Witness ==
    /\ pc = "notify"
    /\ ev.op = "resize"
    /\ ev.probed
    /\ ev.attached
    /\ ev.invoked = <<>>
    /\ children[Body] = BodyChildren
    /\ EnvElm \notin Range(children[Body])

\* C19: every scrollbar-size measurement, at construction and at every
\* zoom-triggered re-probe, reads the boxes of a measurement element that
\* carries neither the scrollbar-hiding class of the styling probe nor the
\* inline styles of the RTL probe.
C19_SameMeasurementConfiguration ==
    ev.probed => (~ev.measured.cls /\ ~ev.measured.style)

\* C19 for the inline styles alone, which removeAttr takes off
C19_MeasuredWithoutInlineStyle ==
    ev.probed => ~ev.measured.style

\* a step that calls a listener
CallStep == Len(ev'.invoked) = Len(ev.invoked) + 1

\* C20: once removeListener(cb) has returned, cb is not called again until
\* addListener(cb) is called: cb is unregistered from then on, in every later
\* notification only registered callbacks are called, and a callback that a
\* listener removes during a notification before its turn is not called in
\* that notification.
C20_RemovedNotInvoked ==
    [][ /\ ev'.gone \cap Range(listeners') = {}
        /\ (pc = "idle" /\ ev'.op = "remove") => ev'.gone # {}
        /\ CallStep =>
             /\ ev'.invoked[Len(ev'.invoked)].cb \in Range(listeners)
             /\ ev'.invoked[Len(ev'.invoked)].cb \notin ev.gone
        /\ (Range(listeners') \ Range(listeners) # {}) =>
             \/ pc = "idle" /\ ev'.op = "add"
             \/ CallStep ]_vars

\* a notification has returned in which the first listener removed the
\* second before its turn: one call was made, and not to the removed one
C20_Witness ==
    /\ pc = "idle"
    /\ ev.op = "resize"
    /\ ev.probed
    /\ ev.mutated
    /\ ev.gone = {2}
    /\ Len(ev.invoked) = 1
    /\ ev.invoked[1].cb = 1
    /\ listeners = <<1>>

---------------------------------------------------------------------------
(* SpecNew: construction on every platform *)

InitNew == InitOn(Platforms)

NextNew == Constructor

SpecNew == InitNew /\ [][NextNew]_vars

\* the styling probe asked for the pseudo-element's style and that raised
PseudoStyleRaised ==
    platform.scrollbarWidth # "none" /\ platform.pseudoDisplay = "throws"

---------------------------------------------------------------------------
(* SpecDom: one call of a DOM utility on a bounded tree *)

SeqsUpTo(S, n) == UNION {[1..k -> S] : k \in 0..n}
NodeList(s) == ListC([i \in DOMAIN s |-> NodeC(s[i])])

\* every placement of the leaves under P, under Q or detached, in every order
Trees ==
    {ch \in [Containers -> {s \in SeqsUpTo(Leaves, Cardinality(Leaves)) : NoDup(s)}] :
        Range(ch[P]) \cap Range(ch[Q]) = {}}

\* collections handed to before: a node, or an array of distinct nodes
InsertColls ==
    {NodeC(n) : n \in Leaves}
    \cup {NodeList(s) : s \in {t \in SeqsUpTo(Leaves, MaxLen) : NoDup(t)}}

\* collections handed to removeElements: null, a node, an array of nodes, or
\* an array holding a nested array of nodes beside a node
RemoveColls ==
    {NullC} \cup InsertColls
    \cup {ListC(<<NodeList(s), NodeC(n)>>) :
             s \in {t \in SeqsUpTo(Leaves, MaxLen - 1) : NoDup(t)}, n \in Leaves}

EnvOff ==
    /\ pc = "off"
    /\ listeners = <<>>
    /\ facts = NoFacts
    /\ installed = FALSE
    /\ size = [w |-> 0, h |-> 0]
    /\ dpr = 0
    /\ win = [w |-> 0, h |-> 0, dpr |-> 0]
    /\ visit = 0
    /\ platform = FullPlatform
    /\ envElm = FreshElm
    /\ ev = Quiet("none")

InitDom ==
    /\ children \in Trees
    /\ domPc = "ready"
    /\ domOp = NoOp
    /\ domPre = children
    /\ domErr = FALSE
    /\ EnvOff

CallBefore ==
    /\ domPc = "ready"
    /\ \E parent \in Containers :
       \E anchor \in Range(children[parent]) \cup {Null} :
       \E elms \in InsertColls :
          LET r == before(children, parent, anchor, elms) IN
          /\ children' = r.ch
          /\ domErr' = r.err
          /\ domOp' = [op |-> "before", node |-> Null, parent |-> parent, anchor |-> anchor,
                       elms |-> elms]
    /\ domPre' = children
    /\ domPc' = "done"
    /\ UNCHANGED envVars

CallRemoveElements ==
    /\ domPc = "ready"
    /\ \E nodes \in RemoveColls :
          /\ children' = removeElements(children, nodes)
          /\ domOp' = [op |-> "removeElements", node |-> Null, parent |-> Null, anchor |-> Null,
                       elms |-> nodes]
    /\ domErr' = FALSE
    /\ domPre' = children
    /\ domPc' = "done"
    /\ UNCHANGED envVars

NextDom == CallBefore \/ CallRemoveElements

SpecDom == InitDom /\ [][NextDom]_vars

---------------------------------------------------------------------------
(* Claims about the DOM utilities, checked under SpecDom *)

\* the nodes of an array collection, in order
Nodes(coll) == [i \in DOMAIN coll.items |-> coll.items[i].n]

\* the nodes of s that are not in set
Keep(s, set) == SelectSeq(s, LAMBDA n : n \notin set)

\* every leaf is in at most one place of the tree
WellFormed(ch) ==
    /\ \A h \in Containers : NoDup(ch[h])
    /\ Range(ch[P]) \cap Range(ch[Q]) = {}

\* position of the anchor among the old children (past the end for null)
AnchorIndex(old, anchor) == IF anchor = Null THEN Len(old) + 1 ELSE IndexOf(old, anchor)

\* before was called with an array of distinct nodes
BeforeArrayDone ==
    /\ domPc = "done"
    /\ domOp.op = "before"
    /\ domOp.elms.k = "list"
    /\ NoDup(Nodes(domOp.elms))

\* the old children with the inserted nodes taken out, and the inserted nodes
\* put in their given order at the anchor's old position
ExpectedChildren ==
    LET old == domPre[domOp.parent]
        ins == Nodes(domOp.elms)
        i == AnchorIndex(old, domOp.anchor)
    IN  Keep(SubSeq(old, 1, i - 1), Range(ins)) \o ins \o Keep(SubSeq(old, i, Len(old)), Range(ins))

OtherParentsKeepOrder ==
    \A h \in Containers \ {domOp.parent} :
        children[h] = Keep(domPre[h], Range(Nodes(domOp.elms)))

\* C8: for a parent with any child list, an anchor that is a child or null and
\* a sequence of distinct nodes none of which is a child of the parent,
\* insert-before leaves the parent with: the old children before the anchor,
\* the inserted nodes in order, the anchor and the old children after it; no
\* old child is lost or reordered and no node appears twice.
C8_InsertBeforeAnchor ==
    (BeforeArrayDone /\ Range(Nodes(domOp.elms)) \cap Range(domPre[domOp.parent]) = {}) =>
        LET old == domPre[domOp.parent]
            i == AnchorIndex(old, domOp.anchor)
        IN  /\ ~domErr
            /\ children[domOp.parent] =
                 SubSeq(old, 1, i - 1) \o Nodes(domOp.elms) \o SubSeq(old, i, Len(old))
            /\ OtherParentsKeepOrder
            /\ WellFormed(children)

\* [a, b] inserted before c under a parent holding [c, d] gave [a, b, c, d]
C8_Witness ==
    /\ BeforeArrayDone
    /\ domPre[P] = <<3, Txt>>
    /\ domOp.parent = P
    /\ domOp.anchor = 3
    /\ Nodes(domOp.elms) = <<1, 2>>
    /\ children[P] = <<1, 2, 3, Txt>>

\* C9: when the inserted collection holds children of the parent (the anchor
\* itself at any position, its previous or next siblings), insert-before
\* raises nothing and ends with each node present once, the inserted nodes
\* contiguous in their given order, the other children in their old order,
\* and the block right before the first child not inserted at or after the
\* anchor's old position (at the end when there is none).
C9_InsertOwnChildren ==
    (BeforeArrayDone /\ Range(Nodes(domOp.elms)) \cap Range(domPre[domOp.parent]) # {}) =>
        /\ ~domErr
        /\ children[domOp.parent] = ExpectedChildren
        /\ OtherParentsKeepOrder
        /\ WellFormed(children)

\* [c, a] inserted before c under a parent holding [a, c, d] gave [c, a, d]
C9_Witness ==
    /\ BeforeArrayDone
    /\ domPre[P] = <<1, 2, 3>>
    /\ domOp.parent = P
    /\ domOp.anchor = 2
    /\ Nodes(domOp.elms) = <<2, 1>>
    /\ children[P] = <<2, 1, 3>>

\* the nodes a collection names, nested arrays included
RECURSIVE Given(_)
Given(coll) ==
    IF coll.k = "node" THEN {coll.n}
    ELSE IF coll.k = "list" THEN UNION {Given(coll.items[i]) : i \in DOMAIN coll.items}
    ELSE {}

\* C10: removeElements detaches every given node that has a parent and nothing
\* else: unparented nodes stay as they are, and in every parent the remaining
\* children keep their relative order.
C10_RemoveDetachesGiven ==
    (domPc = "done" /\ domOp.op = "removeElements") =>
        /\ ~domErr
        /\ \A h \in Containers : children[h] = Keep(domPre[h], Given(domOp.elms))

\* C10 for collections that name element nodes only
C10_RemoveDetachesElements ==
    (domPc = "done" /\ domOp.op = "removeElements" /\ Given(domOp.elms) \subseteq Elms) =>
        /\ ~domErr
        /\ \A h \in Containers : children[h] = Keep(domPre[h], Given(domOp.elms))

---------------------------------------------------------------------------
(* SpecDerived: one call of a derived insert operation on a bounded tree *)

\* collections handed to the derived operations: null, undefined, a node, or
\* an array of distinct nodes (the empty array included)
DerivedColls == {NullC, UndefC} \cup InsertColls

\* the call made, with the reference node and the preferred anchor it hands to
\* before, and its outcome
Called(op, node, refParent, anchor, elms, r) ==
    /\ children' = r.ch
    /\ domErr' = r.err
    /\ domOp' = [op |-> op, node |-> node, parent |-> refParent, anchor |-> anchor,
                 elms |-> elms]
    /\ domPre' = children
    /\ domPc' = "done"
    /\ UNCHANGED envVars

CallAppendChildren ==
    /\ domPc = "ready"
    /\ \E node \in Containers \cup {Null} : \E kids \in DerivedColls :
          Called("appendChildren", node, node, Null, kids,
                 appendChildren(children, node, kids))

CallPrependChildren ==
    /\ domPc = "ready"
    /\ \E node \in Containers \cup {Null} : \E kids \in DerivedColls :
          Called("prependChildren", node, node,
                 IF node = Null THEN Null ELSE firstChild(children, node), kids,
                 prependChildren(children, node, kids))

CallInsertBefore ==
    /\ domPc = "ready"
    /\ \E node \in Leaves \cup {Null} : \E insertedNodes \in DerivedColls :
          Called("insertBefore", node, parentOf(children, node), node, insertedNodes,
                 insertBefore(children, node, insertedNodes))

CallInsertAfter ==
    /\ domPc = "ready"
    /\ \E node \in Leaves \cup {Null} : \E insertedNodes \in DerivedColls :
          Called("insertAfter", node, parentOf(children, node),
                 IF node = Null THEN Null ELSE nextSibling(children, node), insertedNodes,
                 insertAfter(children, node, insertedNodes))

NextDerived ==
    CallAppendChildren \/ CallPrependChildren \/ CallInsertBefore \/ CallInsertAfter

SpecDerived == InitDom /\ [][NextDerived]_vars

---------------------------------------------------------------------------
(* Claims about the derived operations, checked under SpecDerived *)

DerivedOps == {"appendChildren", "prependChildren", "insertBefore", "insertAfter"}

\* the nodes a single node or an array hands over, in order
Inserted(coll) == IF coll.k = "node" THEN <<coll.n>> ELSE Nodes(coll)

\* a derived operation was called on a reference node with at least one node
DerivedInserted ==
    /\ domPc = "done"
    /\ domOp.op \in DerivedOps
    /\ domOp.parent # Null
    /\ domOp.elms.k \in {"node", "list"}
    /\ Inserted(domOp.elms) # <<>>

\* where the block is due among the old children: past the end, at the start,
\* at the node, right after the node
DerivedIndex ==
    LET old == domPre[domOp.parent] IN
    CASE domOp.op = "appendChildren" -> Len(old) + 1
      [] domOp.op = "prependChildren" -> 1
      [] domOp.op = "insertBefore" -> IndexOf(old, domOp.node)
      [] domOp.op = "insertAfter" -> IndexOf(old, domOp.node) + 1

\* the old children without the inserted nodes, and the inserted nodes in
\* their given order where the operation places them
DerivedPlaced ==
    LET old == domPre[domOp.parent]
        ins == Inserted(domOp.elms)
        i == DerivedIndex
    IN  /\ ~domErr
        /\ children[domOp.parent] =
             Keep(SubSeq(old, 1, i - 1), Range(ins)) \o ins \o Keep(SubSeq(old, i, Len(old)), Range(ins))
        /\ \A h \in Containers \ {domOp.parent} : children[h] = Keep(domPre[h], Range(ins))
        /\ WellFormed(children)

\* C11: appendChildren places the inserted nodes, contiguous and in given
\* order, after the parent's last child, prependChildren before its first
\* child (as the only children of an empty parent), insertBefore(n, X) right
\* before n under n's parent and insertAfter(n, X) right after n (at the end
\* when n is last), also when X holds the node that serves as anchor.
C11_DerivedPlacement == DerivedInserted => DerivedPlaced

\* C11 for arrays of nodes and single element nodes
C11_DerivedPlacementNoText ==
    (DerivedInserted /\ domOp.elms # NodeC(Txt)) => DerivedPlaced

\* [b, a] inserted after a under a parent holding [a, b, c] gave [b, a, c]:
\* the array held both the node and the anchor, its next sibling
C11_Witness ==
    /\ DerivedInserted
    /\ domOp.op = "insertAfter"
    /\ domOp.node = 1
    /\ domOp.anchor = 2
    /\ domPre[P] = <<1, 2, 3>>
    /\ Nodes(domOp.elms) = <<2, 1>>
    /\ children[P] = <<2, 1, 3>>

\* a derived operation was called with a null reference node, or with a null,
\* undefined or empty collection
DerivedNullOrEmpty ==
    /\ domPc = "done"
    /\ domOp.op \in DerivedOps
    /\ \/ domOp.parent = Null
       \/ domOp.elms.k \in {"null", "undefined"}
       \/ domOp.elms = ListC(<<>>)

\* C12: an insert call whose reference node is null (insertBefore/insertAfter
\* on a node without a parent, any derived operation on a null node) and an
\* insert call with an empty or null collection change nothing: every child
\* list is as it was, the nodes of the collection stay where they were, and
\* no error is raised.
C12_NullOrEmptyNoop ==
    DerivedNullOrEmpty =>
        /\ ~domErr
        /\ children = domPre

\* insertBefore on a detached node was handed an array of two children of P
C12_Witness ==
    /\ DerivedNullOrEmpty
    /\ domOp.op = "insertBefore"
    /\ domOp.node = 3
    /\ domOp.parent = Null
    /\ Nodes(domOp.elms) = <<2, 1>>
    /\ domPre[P] = <<1, 2>>
    /\ children[P] = <<1, 2>>

---------------------------------------------------------------------------
(* SpecSteps: before, one DOM operation at a time *)

\* the trees with the children of the other parent in one order
StepTrees == {ch \in Trees : \A i, j \in DOMAIN ch[Q] : i < j => ch[Q][i] < ch[Q][j]}

InitSteps ==
    /\ children \in StepTrees
    /\ domPc = "ready"
    /\ domOp = NoOp
    /\ domPre = children
    /\ domErr = FALSE
    /\ EnvOff

\* before(parent, preferredAnchor, insertedElms) is entered: for an array the
\* fragment is created; i and cur are the loop index and the variable anchor
EnterBefore ==
    /\ domPc = "ready"
    /\ \E anchor \in Range(children[P]) \cup {Null} : \E elms \in InsertColls :
          /\ domOp' = [op |-> "before", node |-> Null, parent |-> P, anchor |-> anchor,
                       elms |-> elms, i |-> 1, cur |-> anchor]
          /\ children' = IF isArrayLike(elms) THEN WithFrag(children) ELSE children
          /\ domPc' = IF isArrayLike(elms) /\ arrayFrom(elms) # <<>> THEN "each" ELSE "insert"
    /\ domPre' = children
    /\ UNCHANGED <<domErr, envVars>>

\* one call of the callback: the entry moves into the fragment
EachStep ==
    /\ domPc = "each"
    /\ LET items == arrayFrom(domOp.elms)
           st == eachCallback([ch |-> children, anchor |-> domOp.cur, err |-> FALSE],
                              items[domOp.i])
       IN  IF st.err
           THEN /\ domErr' = TRUE
                /\ children' = NoFrag(children)
                /\ domPc' = "done"
                /\ UNCHANGED domOp
           ELSE /\ children' = st.ch
                /\ domOp' = [domOp EXCEPT !.i = @ + 1, !.cur = st.anchor]
                /\ domPc' = IF domOp.i = Len(items) THEN "insert" ELSE "each"
                /\ UNCHANGED domErr
    /\ UNCHANGED <<domPre, envVars>>

\* the anchor is made valid and parent.insertBefore(fragment, anchor) runs
InsertStep ==
    /\ domPc = "insert"
    /\ LET r == IF isArrayLike(domOp.elms)
                THEN insertFragment(children, domOp.parent,
                                    validAnchor(children, domOp.parent, domOp.anchor, domOp.cur))
                ELSE insertNode(children, domOp.parent, domOp.elms.n,
                                validAnchor(children, domOp.parent, domOp.anchor, domOp.cur))
       IN  /\ children' = NoFrag(r.ch)
           /\ domErr' = r.err
    /\ domPc' = "done"
    /\ UNCHANGED <<domOp, domPre, envVars>>

NextSteps == EnterBefore \/ EachStep \/ InsertStep

SpecSteps == InitSteps /\ [][NextSteps]_vars

---------------------------------------------------------------------------
(* Claims about the steps of before, checked under SpecSteps *)

\* the nodes of the array that were not children of the parent before the call
NewNodes == Range(Nodes(domOp.elms)) \ Range(domPre[domOp.parent])

\* before is running on an array
ArrayRunning == domPc \in {"each", "insert"} /\ domOp.elms.k = "list"

\* C18: a multi-node insert reaches the parent through exactly one insert
\* operation: the nodes are first gathered, in input order, in a detached
\* fragment, and in no intermediate state does the parent hold some but not
\* all of the nodes that were not its children before the call.
C18_AtomicInsert ==
    [][ /\ ArrayRunning' =>
             /\ children'[Frag] = SubSeq(Nodes(domOp'.elms), 1, domOp'.i - 1)
             /\ parentNode(children', Frag) = Null
             /\ Range(children'[domOp'.parent]) \cap NewNodes' = {}
        /\ (domPc' = "done" /\ domOp'.elms.k = "list") =>
             /\ ~domErr'
             /\ NewNodes' \subseteq Range(children'[domOp'.parent])
             /\ children' = before(domPre', domOp'.parent, domOp'.anchor, domOp'.elms).ch
        /\ (domOp'.elms.k = "list"
             /\ ~(Range(children'[domOp'.parent]) \subseteq Range(children[domOp'.parent]))) =>
             (domPc = "insert" /\ domPc' = "done") ]_vars

\* both nodes of [a, b] are gathered in the fragment, in that order, before
\* the one insert under a parent that holds neither
C18_Witness ==
    /\ domPc = "insert"
    /\ domOp.elms = NodeList(<<1, 2>>)
    /\ domOp.anchor = 3
    /\ domPre[P] = <<3>>
    /\ children[P] = <<3>>
    /\ children[Frag] = <<1, 2>>

====
